---- MODULE Spec2Model ----
(***************************************************************************)
(* Model of the bootimg library (src/src/bootimg.rs): the byte layout of   *)
(* the boot and vendor-boot header records, their Default constructors,    *)
(* the os_version packer and the two zero-copy parsers parse_boot_image    *)
(* and parse_vendor_boot_image.                                            *)
(*                                                                         *)
(* Bytes are naturals in 0..255, a buffer is a sequence of bytes.  A u32   *)
(* that the code computes with (the header version, the os_version word)   *)
(* is a 32-bit vector, a function 0..31 -> {0,1} with bit 0 the least      *)
(* significant: TLC's integers are signed 32-bit and cannot hold 2^32-1.   *)
(* Numeric record fields are naturals below 2^31.                          *)
(***************************************************************************)
EXTENDS Integers, Sequences, FiniteSets, TLC

(***************************************************************************)
(* Constants of the library.                                               *)
(***************************************************************************)
BOOT_MAGIC_SIZE == 8
BOOT_MAGIC == <<65, 78, 68, 82, 79, 73, 68, 33>>
BOOT_NAME_SIZE == 16
BOOT_ARGS_SIZE == 512
BOOT_EXTRA_ARGS_SIZE == 1024
VENDOR_BOOT_MAGIC_SIZE == 8
VENDOR_BOOT_MAGIC == <<86, 78, 68, 82, 66, 79, 79, 84>>
VENDOR_BOOT_ARGS_SIZE == 2048
VENDOR_BOOT_NAME_SIZE == 16

(***************************************************************************)
(* Widths of the primitive field types, in bytes.                          *)
(***************************************************************************)
U32_SIZE == 4
U64_SIZE == 8

(***************************************************************************)
(* Byte and word helpers.                                                  *)
(***************************************************************************)
Byte == 0..255
Bit == {0, 1}
WordBits == 0..31

\* [0; n]
Zeros(n) == [i \in 1..n |-> 0]

\* n.to_le_bytes() of an unsigned integer of `width` bytes (n < 2^31).
to_le_bytes(n, width) ==
    [i \in 1..width |-> IF i <= 4 THEN (n \div (256 ^ (i - 1))) % 256 ELSE 0]

\* Bit i of the two's-complement 32-bit pattern of the integer n, -2^31 < n < 2^31.
BitOf(n, i) == IF i = 31 THEN (IF n < 0 THEN 1 ELSE 0) ELSE (n \div (2 ^ i)) % 2

\* The 32-bit word holding the integer n (u32::from, an integer literal).
U32(n) == [i \in WordBits |-> BitOf(n, i)]

\* Faulty variant of from_le_bytes: the bytes read in big-endian order.
from_be_bytes(b) == [i \in WordBits |-> (b[4 - (i \div 8)] \div (2 ^ (i % 8))) % 2]

\* u32::from_le_bytes(b): byte k of the slice holds bits 8k .. 8k+7.
from_le_bytes(b) == [i \in WordBits |-> (b[(i \div 8) + 1] \div (2 ^ (i % 8))) % 2]

\* a & b, a | b, a << k on u32.
BitAnd(a, b) == [i \in WordBits |-> a[i] * b[i]]
BitOr(a, b) == [i \in WordBits |-> IF a[i] = 1 \/ b[i] = 1 THEN 1 ELSE 0]
Shl(a, k) == [i \in WordBits |-> IF i >= k THEN a[i - k] ELSE 0]

\* [[u32; n]] as bytes: each element little-endian, in order.
RECURSIVE u32_array_bytes(_)
u32_array_bytes(a) ==
    IF a = <<>> THEN <<>> ELSE to_le_bytes(Head(a), U32_SIZE) \o u32_array_bytes(Tail(a))

(***************************************************************************)
(* Record sizes.  Every record is #[repr(C, packed)], so size_of is the    *)
(* sum of the widths of its fields, in declaration order, with no padding. *)
(***************************************************************************)
size_of_BootImgHdrV0 ==
    BOOT_MAGIC_SIZE + U32_SIZE + U32_SIZE + U32_SIZE + U32_SIZE + U32_SIZE + U32_SIZE
      + U32_SIZE + U32_SIZE + U32_SIZE + U32_SIZE + BOOT_NAME_SIZE + BOOT_ARGS_SIZE
      + (8 * U32_SIZE) + BOOT_EXTRA_ARGS_SIZE

size_of_BootImgHdrV1 == size_of_BootImgHdrV0 + U32_SIZE + U64_SIZE + U32_SIZE

size_of_BootImgHdrV2 == size_of_BootImgHdrV1 + U32_SIZE + U64_SIZE

size_of_BootImgHdrV3 ==
    BOOT_MAGIC_SIZE + U32_SIZE + U32_SIZE + U32_SIZE + U32_SIZE + (4 * U32_SIZE)
      + U32_SIZE + U32_SIZE + U32_SIZE + U32_SIZE + U32_SIZE + VENDOR_BOOT_ARGS_SIZE
      + U32_SIZE + VENDOR_BOOT_NAME_SIZE + U32_SIZE + U64_SIZE

size_of_BootImgHdrV4 == size_of_BootImgHdrV3 + U32_SIZE

size_of_VendorBootHdrV3 ==
    VENDOR_BOOT_MAGIC_SIZE + U32_SIZE + U32_SIZE + U32_SIZE + U32_SIZE + U32_SIZE
      + VENDOR_BOOT_ARGS_SIZE + U32_SIZE + VENDOR_BOOT_NAME_SIZE + U32_SIZE + U32_SIZE
      + U64_SIZE

size_of_VendorBootHdrV4 ==
    size_of_VendorBootHdrV3 + U32_SIZE + U32_SIZE + U32_SIZE + U32_SIZE

(***************************************************************************)
(* Default constructors.                                                   *)
(***************************************************************************)
BootImgHdrV0_default ==
    [magic |-> BOOT_MAGIC, kernel_size |-> 0, kernel_addr |-> 0, ramdisk_size |-> 0,
     ramdisk_addr |-> 0, second_size |-> 0, second_addr |-> 0, tags_addr |-> 0,
     page_size |-> 0, header_version |-> 0, os_version |-> 0,
     name |-> Zeros(BOOT_NAME_SIZE), cmdline |-> Zeros(BOOT_ARGS_SIZE),
     id |-> Zeros(8), extra_cmdline |-> Zeros(BOOT_EXTRA_ARGS_SIZE)]

BootImgHdrV1_default ==
    [v0_hdr |-> [BootImgHdrV0_default EXCEPT !.header_version = 1],
     recovery_dtbo_size |-> 0, recovery_dtbo_offset |-> 0,
     header_size |-> size_of_BootImgHdrV1]

BootImgHdrV2_default ==
    [v1_hdr |-> [BootImgHdrV1_default EXCEPT
                   !.v0_hdr = [BootImgHdrV0_default EXCEPT !.header_version = 2]],
     dtb_size |-> 0, dtb_addr |-> 0]

\* Faulty variant of BootImgHdrV3_default: the magic its field comment names.
BootImgHdrV3_default_vendor_magic ==
    [magic |-> VENDOR_BOOT_MAGIC, kernel_size |-> 0, ramdisk_size |-> 0, os_version |-> 0,
     header_size |-> size_of_BootImgHdrV3, reserved |-> Zeros(4), header_version |-> 3,
     page_size |-> 4096, kernel_addr |-> 0, ramdisk_addr |-> 0,
     vendor_ramdisk_size |-> 0, cmdline |-> Zeros(VENDOR_BOOT_ARGS_SIZE),
     tags_addr |-> 0, name |-> Zeros(VENDOR_BOOT_NAME_SIZE), dtb_size |-> 0,
     dtb_addr |-> 0]

BootImgHdrV3_default ==
    [magic |-> BOOT_MAGIC, kernel_size |-> 0, ramdisk_size |-> 0, os_version |-> 0,
     header_size |-> size_of_BootImgHdrV3, reserved |-> Zeros(4), header_version |-> 3,
     page_size |-> 4096, kernel_addr |-> 0, ramdisk_addr |-> 0,
     vendor_ramdisk_size |-> 0, cmdline |-> Zeros(VENDOR_BOOT_ARGS_SIZE),
     tags_addr |-> 0, name |-> Zeros(VENDOR_BOOT_NAME_SIZE), dtb_size |-> 0,
     dtb_addr |-> 0]

BootImgHdrV4_default ==
    [v3_hdr |-> [BootImgHdrV3_default EXCEPT !.header_version = 4],
     signature_size |-> 0]

VendorBootHdrV3_default ==
    [magic |-> VENDOR_BOOT_MAGIC, header_version |-> 3, page_size |-> 0,
     kernel_addr |-> 0, ramdisk_addr |-> 0, vendor_ramdisk_size |-> 0,
     cmdline |-> Zeros(VENDOR_BOOT_ARGS_SIZE), tags_addr |-> 0,
     name |-> Zeros(VENDOR_BOOT_NAME_SIZE), header_size |-> size_of_VendorBootHdrV3,
     dtb_size |-> 0, dtb_addr |-> 0]

VendorBootHdrV4_default ==
    [v3_img_hdr |-> [VendorBootHdrV3_default EXCEPT !.header_version = 4],
     vendor_ramdisk_table_size |-> 0, vendor_ramdisk_table_entry_num |-> 0,
     vendor_ramdisk_table_entry_size |-> 0, bootconfig_size |-> 0]

(***************************************************************************)
(* AsBytes: the bytes of a record are the bytes of its fields in           *)
(* declaration order, integers little-endian, arrays element by element.   *)
(***************************************************************************)
BootImgHdrV0_as_bytes(h) ==
    h.magic \o to_le_bytes(h.kernel_size, U32_SIZE) \o to_le_bytes(h.kernel_addr, U32_SIZE)
      \o to_le_bytes(h.ramdisk_size, U32_SIZE) \o to_le_bytes(h.ramdisk_addr, U32_SIZE)
      \o to_le_bytes(h.second_size, U32_SIZE) \o to_le_bytes(h.second_addr, U32_SIZE)
      \o to_le_bytes(h.tags_addr, U32_SIZE) \o to_le_bytes(h.page_size, U32_SIZE)
      \o to_le_bytes(h.header_version, U32_SIZE) \o to_le_bytes(h.os_version, U32_SIZE)
      \o h.name \o h.cmdline \o u32_array_bytes(h.id) \o h.extra_cmdline

\* Faulty variant of BootImgHdrV1_as_bytes: repr(C) without packed, the u64
\* field aligned to 8 bytes.
BootImgHdrV1_as_bytes_padded(h) ==
    BootImgHdrV0_as_bytes(h.v0_hdr) \o to_le_bytes(h.recovery_dtbo_size, U32_SIZE)
      \o Zeros(4)
      \o to_le_bytes(h.recovery_dtbo_offset, U64_SIZE) \o to_le_bytes(h.header_size, U32_SIZE)

BootImgHdrV1_as_bytes(h) ==
    BootImgHdrV0_as_bytes(h.v0_hdr) \o to_le_bytes(h.recovery_dtbo_size, U32_SIZE)
      \o to_le_bytes(h.recovery_dtbo_offset, U64_SIZE) \o to_le_bytes(h.header_size, U32_SIZE)

BootImgHdrV2_as_bytes(h) ==
    BootImgHdrV1_as_bytes(h.v1_hdr) \o to_le_bytes(h.dtb_size, U32_SIZE)
      \o to_le_bytes(h.dtb_addr, U64_SIZE)

BootImgHdrV3_as_bytes(h) ==
    h.magic \o to_le_bytes(h.kernel_size, U32_SIZE) \o to_le_bytes(h.ramdisk_size, U32_SIZE)
      \o to_le_bytes(h.os_version, U32_SIZE) \o to_le_bytes(h.header_size, U32_SIZE)
      \o u32_array_bytes(h.reserved) \o to_le_bytes(h.header_version, U32_SIZE)
      \o to_le_bytes(h.page_size, U32_SIZE) \o to_le_bytes(h.kernel_addr, U32_SIZE)
      \o to_le_bytes(h.ramdisk_addr, U32_SIZE)
      \o to_le_bytes(h.vendor_ramdisk_size, U32_SIZE) \o h.cmdline
      \o to_le_bytes(h.tags_addr, U32_SIZE) \o h.name \o to_le_bytes(h.dtb_size, U32_SIZE)
      \o to_le_bytes(h.dtb_addr, U64_SIZE)

BootImgHdrV4_as_bytes(h) ==
    BootImgHdrV3_as_bytes(h.v3_hdr) \o to_le_bytes(h.signature_size, U32_SIZE)

VendorBootHdrV3_as_bytes(h) ==
    h.magic \o to_le_bytes(h.header_version, U32_SIZE) \o to_le_bytes(h.page_size, U32_SIZE)
      \o to_le_bytes(h.kernel_addr, U32_SIZE) \o to_le_bytes(h.ramdisk_addr, U32_SIZE)
      \o to_le_bytes(h.vendor_ramdisk_size, U32_SIZE) \o h.cmdline
      \o to_le_bytes(h.tags_addr, U32_SIZE) \o h.name
      \o to_le_bytes(h.header_size, U32_SIZE) \o to_le_bytes(h.dtb_size, U32_SIZE)
      \o to_le_bytes(h.dtb_addr, U64_SIZE)

VendorBootHdrV4_as_bytes(h) ==
    VendorBootHdrV3_as_bytes(h.v3_img_hdr)
      \o to_le_bytes(h.vendor_ramdisk_table_size, U32_SIZE)
      \o to_le_bytes(h.vendor_ramdisk_table_entry_num, U32_SIZE)
      \o to_le_bytes(h.vendor_ramdisk_table_entry_size, U32_SIZE)
      \o to_le_bytes(h.bootconfig_size, U32_SIZE)

\* The record types, and the operations above by type name.
BootTypes == {"BootImgHdrV0", "BootImgHdrV1", "BootImgHdrV2", "BootImgHdrV3", "BootImgHdrV4"}
VendorTypes == {"VendorBootHdrV3", "VendorBootHdrV4"}
RecordTypes == BootTypes \cup VendorTypes

size_of(T) ==
    CASE T = "BootImgHdrV0" -> size_of_BootImgHdrV0
      [] T = "BootImgHdrV1" -> size_of_BootImgHdrV1
      [] T = "BootImgHdrV2" -> size_of_BootImgHdrV2
      [] T = "BootImgHdrV3" -> size_of_BootImgHdrV3
      [] T = "BootImgHdrV4" -> size_of_BootImgHdrV4
      [] T = "VendorBootHdrV3" -> size_of_VendorBootHdrV3
      [] T = "VendorBootHdrV4" -> size_of_VendorBootHdrV4

Default(T) ==
    CASE T = "BootImgHdrV0" -> BootImgHdrV0_default
      [] T = "BootImgHdrV1" -> BootImgHdrV1_default
      [] T = "BootImgHdrV2" -> BootImgHdrV2_default
      [] T = "BootImgHdrV3" -> BootImgHdrV3_default
      [] T = "BootImgHdrV4" -> BootImgHdrV4_default
      [] T = "VendorBootHdrV3" -> VendorBootHdrV3_default
      [] T = "VendorBootHdrV4" -> VendorBootHdrV4_default

as_bytes(T, h) ==
    CASE T = "BootImgHdrV0" -> BootImgHdrV0_as_bytes(h)
      [] T = "BootImgHdrV1" -> BootImgHdrV1_as_bytes(h)
      [] T = "BootImgHdrV2" -> BootImgHdrV2_as_bytes(h)
      [] T = "BootImgHdrV3" -> BootImgHdrV3_as_bytes(h)
      [] T = "BootImgHdrV4" -> BootImgHdrV4_as_bytes(h)
      [] T = "VendorBootHdrV3" -> VendorBootHdrV3_as_bytes(h)
      [] T = "VendorBootHdrV4" -> VendorBootHdrV4_as_bytes(h)

(***************************************************************************)
(* Slices, Option and Result values.                                       *)
(***************************************************************************)
(***************************************************************************)
(* The prefix field of a record type: the record it declares as its first  *)
(* field, and the fields it declares after it.                             *)
(***************************************************************************)
NoPrefix == "none"

prefix_type(T) ==
    CASE T = "BootImgHdrV1" -> "BootImgHdrV0"
      [] T = "BootImgHdrV2" -> "BootImgHdrV1"
      [] T = "BootImgHdrV4" -> "BootImgHdrV3"
      [] T = "VendorBootHdrV4" -> "VendorBootHdrV3"
      [] OTHER -> NoPrefix

prefix_of(T, h) ==
    CASE T = "BootImgHdrV1" -> h.v0_hdr
      [] T = "BootImgHdrV2" -> h.v1_hdr
      [] T = "BootImgHdrV4" -> h.v3_hdr
      [] T = "VendorBootHdrV4" -> h.v3_img_hdr

\* Summed widths of the fields declared after the prefix field.
own_fields_width(T) ==
    CASE T = "BootImgHdrV1" -> U32_SIZE + U64_SIZE + U32_SIZE
      [] T = "BootImgHdrV2" -> U32_SIZE + U64_SIZE
      [] T = "BootImgHdrV4" -> U32_SIZE
      [] T = "VendorBootHdrV4" -> U32_SIZE + U32_SIZE + U32_SIZE + U32_SIZE
      [] OTHER -> size_of(T)

\* b[lo..hi]
Slice(b, lo, hi) == SubSeq(b, lo + 1, hi)

(***************************************************************************)
(* Reading a field through a view (FromBytes): the field's bytes lie at    *)
(* the sum of the widths of the fields declared before it.                 *)
(***************************************************************************)
\* Offset of header_version in each record type.
offset_of_header_version(T) ==
    CASE T = "BootImgHdrV0" ->
           BOOT_MAGIC_SIZE + U32_SIZE + U32_SIZE + U32_SIZE + U32_SIZE + U32_SIZE
             + U32_SIZE + U32_SIZE + U32_SIZE
      [] T = "BootImgHdrV1" ->
           BOOT_MAGIC_SIZE + U32_SIZE + U32_SIZE + U32_SIZE + U32_SIZE + U32_SIZE
             + U32_SIZE + U32_SIZE + U32_SIZE
      [] T = "BootImgHdrV2" ->
           BOOT_MAGIC_SIZE + U32_SIZE + U32_SIZE + U32_SIZE + U32_SIZE + U32_SIZE
             + U32_SIZE + U32_SIZE + U32_SIZE
      [] T = "BootImgHdrV3" ->
           BOOT_MAGIC_SIZE + U32_SIZE + U32_SIZE + U32_SIZE + U32_SIZE + (4 * U32_SIZE)
      [] T = "BootImgHdrV4" ->
           BOOT_MAGIC_SIZE + U32_SIZE + U32_SIZE + U32_SIZE + U32_SIZE + (4 * U32_SIZE)
      [] T = "VendorBootHdrV3" -> VENDOR_BOOT_MAGIC_SIZE
      [] T = "VendorBootHdrV4" -> VENDOR_BOOT_MAGIC_SIZE

\* view.header_version, for a view of type T over the bytes head.
view_header_version(T, head) ==
    from_le_bytes(Slice(head, offset_of_header_version(T),
                        offset_of_header_version(T) + U32_SIZE))

\* view.magic: the first field of every record type.
view_magic(T, head) ==
    Slice(head, 0, IF T \in {"VendorBootHdrV3", "VendorBootHdrV4"}
                     THEN VENDOR_BOOT_MAGIC_SIZE ELSE BOOT_MAGIC_SIZE)

NoResult == [kind |-> "none"]
Err(e) == [kind |-> "Err", err |-> e]
Ok(variant, head) == [kind |-> "Ok", variant |-> variant, head |-> head]

\* LayoutVerified::<B, T>::new_from_prefix(buffer) for a T of `size` bytes and
\* alignment 1: None when the buffer is shorter than T, else the first `size`
\* bytes as the record's view, and the rest.
new_from_prefix(b, size) ==
    IF Len(b) < size
      THEN [some |-> FALSE]
      ELSE [some |-> TRUE, head |-> Slice(b, 0, size), rest |-> Slice(b, size, Len(b))]

\* Faulty variant of view_or_too_small: the view laid over the whole buffer.
view_over_whole_buffer(variant, b, size) ==
    LET r == new_from_prefix(b, size)
    IN  IF r.some THEN Ok(variant, b) ELSE Err("BufferTooSmall")

\* Faulty variant of view_or_too_small: a failed view reported as UnknownError.
view_or_unknown_error(variant, b, size) ==
    LET r == new_from_prefix(b, size)
    IN  IF r.some THEN Ok(variant, r.head) ELSE Err("UnknownError")

\* new_from_prefix(buffer).ok_or(BufferTooSmall)?  followed by Ok(Self::variant(head)).
view_or_too_small(variant, b, size) ==
    LET r == new_from_prefix(b, size)
    IN  IF r.some THEN Ok(variant, r.head) ELSE Err("BufferTooSmall")

(***************************************************************************)
(* parse_boot_image.                                                       *)
(***************************************************************************)
\* The version is a 32 bit integer starting at byte 40 and ending before byte 44.
BOOT_VERSION_OFFSET == 40
BOOT_VERSION_END == 44

\* Faulty variant of boot_match_version: the arm of version 3 builds the view of
\* the version-4 record.
boot_match_version_v3_as_v4(v, b) ==
    IF v = U32(0) THEN view_or_too_small("V0Hdr", b, size_of_BootImgHdrV0)
    ELSE IF v = U32(1) THEN view_or_too_small("V1Hdr", b, size_of_BootImgHdrV1)
    ELSE IF v = U32(2) THEN view_or_too_small("V2Hdr", b, size_of_BootImgHdrV2)
    ELSE IF v = U32(3) THEN view_or_too_small("V3Hdr", b, size_of_BootImgHdrV4)
    ELSE IF v = U32(4) THEN view_or_too_small("V4Hdr", b, size_of_BootImgHdrV4)
    ELSE Err("UnknownVersion")

\* Faulty variant of boot_match_version: the arm of version 2 builds the
\* version-1 view.
boot_match_version_v2_as_v1(v, b) ==
    IF v = U32(0) THEN view_or_too_small("V0Hdr", b, size_of_BootImgHdrV0)
    ELSE IF v = U32(1) THEN view_or_too_small("V1Hdr", b, size_of_BootImgHdrV1)
    ELSE IF v = U32(2) THEN view_or_too_small("V1Hdr", b, size_of_BootImgHdrV1)
    ELSE IF v = U32(3) THEN view_or_too_small("V3Hdr", b, size_of_BootImgHdrV3)
    ELSE IF v = U32(4) THEN view_or_too_small("V4Hdr", b, size_of_BootImgHdrV4)
    ELSE Err("UnknownVersion")

\* Faulty variant of boot_match_version: the catch-all arm returns UnknownError.
boot_match_version_catch_all(v, b) ==
    IF v = U32(0) THEN view_or_too_small("V0Hdr", b, size_of_BootImgHdrV0)
    ELSE IF v = U32(1) THEN view_or_too_small("V1Hdr", b, size_of_BootImgHdrV1)
    ELSE IF v = U32(2) THEN view_or_too_small("V2Hdr", b, size_of_BootImgHdrV2)
    ELSE IF v = U32(3) THEN view_or_too_small("V3Hdr", b, size_of_BootImgHdrV3)
    ELSE IF v = U32(4) THEN view_or_too_small("V4Hdr", b, size_of_BootImgHdrV4)
    ELSE Err("UnknownError")

\* match version { 0 => .., 1 => .., 2 => .., 3 => .., 4 => .., _ => UnknownVersion }
boot_match_version(v, b) ==
    IF v = U32(0) THEN view_or_too_small("V0Hdr", b, size_of_BootImgHdrV0)
    ELSE IF v = U32(1) THEN view_or_too_small("V1Hdr", b, size_of_BootImgHdrV1)
    ELSE IF v = U32(2) THEN view_or_too_small("V2Hdr", b, size_of_BootImgHdrV2)
    ELSE IF v = U32(3) THEN view_or_too_small("V3Hdr", b, size_of_BootImgHdrV3)
    ELSE IF v = U32(4) THEN view_or_too_small("V4Hdr", b, size_of_BootImgHdrV4)
    ELSE Err("UnknownVersion")

(***************************************************************************)
(* parse_vendor_boot_image.                                                *)
(***************************************************************************)
version_end_offset == VENDOR_BOOT_MAGIC_SIZE + U32_SIZE

\* Faulty variant of vendor_match_version: versions 0 to 2 taken for version 3.
vendor_match_version_from_0(v, b) ==
    IF v \in {U32(0), U32(1), U32(2), U32(3)}
      THEN view_or_too_small("V3Hdr", b, size_of_VendorBootHdrV3)
    ELSE IF v = U32(4) THEN view_or_too_small("V4Hdr", b, size_of_VendorBootHdrV4)
    ELSE Err("UnknownVersion")

\* Faulty variant of vendor_match_version: the arm of version 4 builds the
\* version-3 view.
vendor_match_version_v4_as_v3(v, b) ==
    IF v = U32(3) THEN view_or_too_small("V3Hdr", b, size_of_VendorBootHdrV3)
    ELSE IF v = U32(4) THEN view_or_too_small("V3Hdr", b, size_of_VendorBootHdrV3)
    ELSE Err("UnknownVersion")

\* match version { 3 => .., 4 => .., _ => UnknownVersion }
vendor_match_version(v, b) ==
    IF v = U32(3) THEN view_or_too_small("V3Hdr", b, size_of_VendorBootHdrV3)
    ELSE IF v = U32(4) THEN view_or_too_small("V4Hdr", b, size_of_VendorBootHdrV4)
    ELSE Err("UnknownVersion")

(***************************************************************************)
(* os_version.  u32::from(year) - 2000 is an unsigned subtraction: with     *)
(* overflow checks compiled in (the debug profile) it panics when           *)
(* year < 2000, without them (the release profile) it wraps modulo 2^32.    *)
(***************************************************************************)
YEAR_BASE == 2000
MASK_7F == 127
MASK_F == 15

os_version(major, minor, patch, year, month, overflow_checks) ==
    IF overflow_checks /\ year < YEAR_BASE
      THEN [kind |-> "panic"]
      ELSE [kind |-> "value",
            word |->
              BitOr(BitOr(BitOr(BitOr(
                Shl(BitAnd(U32(major), U32(MASK_7F)), 25),
                Shl(BitAnd(U32(minor), U32(MASK_7F)), 18)),
                Shl(BitAnd(U32(patch), U32(MASK_7F)), 11)),
                Shl(BitAnd(U32(year - YEAR_BASE), U32(MASK_7F)), 4)),
                BitAnd(U32(month), U32(MASK_F)))]

(***************************************************************************)
(* Inputs.  A caller's buffer is built the way the library's tests build    *)
(* theirs: a record is written to the front of a buffer (add), fields are   *)
(* overridden, and the buffer is cut or extended to the length wanted.      *)
(***************************************************************************)
\* How far around each interesting length the buffer lengths range.
Slack == 1

\* The byte that fills a buffer beyond the record written to it.
Fills == {0, 170}

ANDROGEN == <<65, 78, 68, 82, 79, 71, 69, 78>>
Magics == {BOOT_MAGIC, VENDOR_BOOT_MAGIC, ANDROGEN, Zeros(8)}

\* The four bytes written over the version field; <<>> leaves the record's own.
RawVersions ==
    {<<>>, <<0, 0, 0, 0>>, <<1, 0, 0, 0>>, <<2, 0, 0, 0>>, <<3, 0, 0, 0>>, <<4, 0, 0, 0>>,
     <<5, 0, 0, 0>>, <<64, 8, 0, 0>>, <<0, 0, 0, 3>>, <<255, 255, 255, 255>>}

\* Lengths around which every buffer is tried: the offsets the parsers test.
ShortBoundaries ==
    {0, BOOT_MAGIC_SIZE, version_end_offset, BOOT_VERSION_OFFSET, BOOT_VERSION_END}

\* Lengths around which the buffer holding a record of type T is tried: the
\* record's own size; for the first record type of a family, whose layout the
\* later ones extend, the size of every record type of the family; and for a
\* version-0 boot record also its size plus the two fields version 2 adds.
LongBoundaries(T) ==
    {size_of(T)} \cup
      (CASE T = "BootImgHdrV0" ->
              {size_of(U) : U \in BootTypes}
                \cup {size_of_BootImgHdrV0 + U32_SIZE + U64_SIZE}
         [] T = "VendorBootHdrV3" -> {size_of(U) : U \in VendorTypes}
         [] OTHER -> {})

Around(S) == UNION {{n \in (c - Slack)..(c + Slack) : n >= 0} : c \in S}

Lengths(T) == Around(ShortBoundaries) \cup Around(LongBoundaries(T))

\* The bytes of each type's default record.
DefaultBytes == [T \in RecordTypes |-> as_bytes(T, Default(T))]

\* add::<T>(&mut buffer, T { magic, header_version, ..Default::default() }) on a
\* buffer of n bytes f: the record's bytes with `magic` written at offset 0 and
\* `raw` at offset off, cut to n bytes or followed by bytes f up to n bytes.
InputBuffer(T, magic, off, raw, n, f) ==
    LET d == DefaultBytes[T]
    IN  [i \in 1..n |->
           IF i <= Len(magic) THEN magic[i]
           ELSE IF i > off /\ i <= off + Len(raw) THEN raw[i - off]
           ELSE IF i <= Len(d) THEN d[i]
           ELSE f]

(***************************************************************************)
(* State.                                                                  *)
(***************************************************************************)
VARIABLES
    pc,         \* where the current call stands
    fn,         \* the operation called
    buffer,     \* the caller's buffer, borrowed by the parser
    version,    \* the parser's local `version`
    result,     \* the parser's return value
    hdr,        \* the record a Default constructor returned
    os_args,    \* the arguments of the os_version call
    os_result,  \* what the os_version call gave
    threads     \* the parser calls running concurrently over `buffer`

vars == <<pc, fn, buffer, version, result, hdr, os_args, os_result, threads>>

NoVersion == "unset"
NoHdr == [type |-> "none"]
NoArgs == [year |-> -1]
NoOsResult == [kind |-> "none"]
NoThreads == <<>>

Init ==
    /\ pc = "idle"
    /\ fn = "none"
    /\ buffer = <<>>
    /\ version = NoVersion
    /\ result = NoResult
    /\ hdr = NoHdr
    /\ os_args = NoArgs
    /\ os_result = NoOsResult
    /\ threads = NoThreads

(***************************************************************************)
(* parse_boot_image, statement by statement.                               *)
(***************************************************************************)
CallParseBoot ==
    /\ pc = "idle"
    /\ \E T \in RecordTypes : \E n \in Lengths(T) :
         \E magic \in Magics, raw \in RawVersions,
            f \in (IF n > size_of(T) THEN Fills ELSE {0}) :
           buffer' = InputBuffer(T, magic, BOOT_VERSION_OFFSET, raw, n, f)
    /\ fn' = "parse_boot_image"
    /\ pc' = "start"
    /\ UNCHANGED <<version, result, hdr, os_args, os_result, threads>>

\* Faulty variant of BootCheckLength: the magic compared before the length.
BootCheckLength_after_magic ==
    /\ pc = "start" /\ fn = "parse_boot_image"
    /\ IF Len(buffer) >= BOOT_MAGIC_SIZE /\ Slice(buffer, 0, BOOT_MAGIC_SIZE) # BOOT_MAGIC
         THEN result' = Err("BadMagic") /\ pc' = "done"
         ELSE IF Len(buffer) < BOOT_VERSION_END
                THEN result' = Err("BufferTooSmall") /\ pc' = "done"
                ELSE result' = result /\ pc' = "length_checked"
    /\ UNCHANGED <<fn, buffer, version, hdr, os_args, os_result, threads>>

\* if buffer.len() < 44 { return Err(BufferTooSmall) }
BootCheckLength ==
    /\ pc = "start" /\ fn = "parse_boot_image"
    /\ IF Len(buffer) < BOOT_VERSION_END
         THEN result' = Err("BufferTooSmall") /\ pc' = "done"
         ELSE result' = result /\ pc' = "length_checked"
    /\ UNCHANGED <<fn, buffer, version, hdr, os_args, os_result, threads>>

\* let version = u32::from_le_bytes(buffer[40..44].try_into().map_err(..)?)
BootReadVersion ==
    /\ pc = "length_checked" /\ fn = "parse_boot_image"
    /\ LET s == Slice(buffer, BOOT_VERSION_OFFSET, BOOT_VERSION_END)
       IN  IF Len(s) # U32_SIZE
             THEN result' = Err("BufferTooSmall") /\ version' = version /\ pc' = "done"
             ELSE result' = result /\ version' = from_le_bytes(s) /\ pc' = "version_read"
    /\ UNCHANGED <<fn, buffer, hdr, os_args, os_result, threads>>

\* Faulty variant of BootCheckMagic: only the first four bytes compared.
BootCheckMagic_first4 ==
    /\ pc = "version_read" /\ fn = "parse_boot_image"
    /\ IF Slice(buffer, 0, 4) # Slice(BOOT_MAGIC, 0, 4)
         THEN result' = Err("BadMagic") /\ pc' = "done"
         ELSE result' = result /\ pc' = "magic_checked"
    /\ UNCHANGED <<fn, buffer, version, hdr, os_args, os_result, threads>>

\* if buffer[0..BOOT_MAGIC_SIZE].ne(&BOOT_MAGIC) { return Err(BadMagic) }
BootCheckMagic ==
    /\ pc = "version_read" /\ fn = "parse_boot_image"
    /\ IF Slice(buffer, 0, BOOT_MAGIC_SIZE) # BOOT_MAGIC
         THEN result' = Err("BadMagic") /\ pc' = "done"
         ELSE result' = result /\ pc' = "magic_checked"
    /\ UNCHANGED <<fn, buffer, version, hdr, os_args, os_result, threads>>

\* match version { .. }
BootDispatch ==
    /\ pc = "magic_checked" /\ fn = "parse_boot_image"
    /\ result' = boot_match_version(version, buffer)
    /\ pc' = "done"
    /\ UNCHANGED <<fn, buffer, version, hdr, os_args, os_result, threads>>

(***************************************************************************)
(* parse_vendor_boot_image, statement by statement.                        *)
(***************************************************************************)
CallParseVendor ==
    /\ pc = "idle"
    /\ \E T \in RecordTypes : \E n \in Lengths(T) :
         \E magic \in Magics, raw \in RawVersions,
            f \in (IF n > size_of(T) THEN Fills ELSE {0}) :
           buffer' = InputBuffer(T, magic, VENDOR_BOOT_MAGIC_SIZE, raw, n, f)
    /\ fn' = "parse_vendor_boot_image"
    /\ pc' = "start"
    /\ UNCHANGED <<version, result, hdr, os_args, os_result, threads>>

\* if buffer.len() < version_end_offset { return Err(BufferTooSmall) }
VendorCheckLength ==
    /\ pc = "start" /\ fn = "parse_vendor_boot_image"
    /\ IF Len(buffer) < version_end_offset
         THEN result' = Err("BufferTooSmall") /\ pc' = "done"
         ELSE result' = result /\ pc' = "length_checked"
    /\ UNCHANGED <<fn, buffer, version, hdr, os_args, os_result, threads>>

\* Faulty variant of VendorCheckMagic: the early return is missing.
VendorCheckMagic_no_return ==
    /\ pc = "length_checked" /\ fn = "parse_vendor_boot_image"
    /\ IF Slice(buffer, 0, VENDOR_BOOT_MAGIC_SIZE) # VENDOR_BOOT_MAGIC
         THEN result' = Err("BadMagic") /\ pc' = "magic_checked"
         ELSE result' = result /\ pc' = "magic_checked"
    /\ UNCHANGED <<fn, buffer, version, hdr, os_args, os_result, threads>>

\* if buffer[0..VENDOR_BOOT_MAGIC_SIZE].ne(&VENDOR_BOOT_MAGIC) { return Err(BadMagic) }
VendorCheckMagic ==
    /\ pc = "length_checked" /\ fn = "parse_vendor_boot_image"
    /\ IF Slice(buffer, 0, VENDOR_BOOT_MAGIC_SIZE) # VENDOR_BOOT_MAGIC
         THEN result' = Err("BadMagic") /\ pc' = "done"
         ELSE result' = result /\ pc' = "magic_checked"
    /\ UNCHANGED <<fn, buffer, version, hdr, os_args, os_result, threads>>

\* let version = u32::from_le_bytes(buffer[8..version_end_offset].try_into().map_err(..)?)
VendorReadVersion ==
    /\ pc = "magic_checked" /\ fn = "parse_vendor_boot_image"
    /\ LET s == Slice(buffer, VENDOR_BOOT_MAGIC_SIZE, version_end_offset)
       IN  IF Len(s) # U32_SIZE
             THEN result' = Err("BufferTooSmall") /\ version' = version /\ pc' = "done"
             ELSE result' = result /\ version' = from_le_bytes(s) /\ pc' = "version_read"
    /\ UNCHANGED <<fn, buffer, hdr, os_args, os_result, threads>>

\* match version { .. }
VendorDispatch ==
    /\ pc = "version_read" /\ fn = "parse_vendor_boot_image"
    /\ result' = vendor_match_version(version, buffer)
    /\ pc' = "done"
    /\ UNCHANGED <<fn, buffer, version, hdr, os_args, os_result, threads>>

(***************************************************************************)
(* Default::default() of a record type.                                    *)
(***************************************************************************)
ConstructDefault ==
    /\ pc = "idle"
    /\ \E T \in RecordTypes : hdr' = [type |-> T, rec |-> Default(T)]
    /\ fn' = "default"
    /\ pc' = "done"
    /\ UNCHANGED <<buffer, version, result, os_args, os_result, threads>>

(***************************************************************************)
(* os_version(major, minor, patch, year, month).  The parameters are u8;   *)
(* a caller holding a wider year can pass it only narrowed to u8            *)
(* (`year as u8`, the value modulo 256).  The build profile decides         *)
(* whether arithmetic overflow is checked.                                  *)
(***************************************************************************)
Majors == {0, 7, 127, 128, 255}
Minors == {0, 1, 127, 129}
Patches == {0, 2, 127, 130}
Years == {0, 24, 255, 1999, 2000, 2024, 2127, 2128, 2255}
Months == {0, 3, 12, 15, 16, 255}

CallOsVersion ==
    /\ pc = "idle"
    /\ \E major \in Majors, minor \in Minors, patch \in Patches, y \in Years,
          month \in Months, overflow_checks \in BOOLEAN :
         /\ os_args' = [major |-> major, minor |-> minor, patch |-> patch,
                        year |-> y % 256, month |-> month, caller_year |-> y,
                        overflow_checks |-> overflow_checks]
         /\ os_result' = os_version(major, minor, patch, y % 256, month, overflow_checks)
    /\ fn' = "os_version"
    /\ pc' = "done"
    /\ UNCHANGED <<buffer, version, result, hdr, threads>>

\* The call has returned; the caller is free to make the next one.
Return ==
    /\ pc = "done"
    /\ pc' = "idle"
    /\ fn' = "none"
    /\ buffer' = <<>>
    /\ version' = NoVersion
    /\ result' = NoResult
    /\ hdr' = NoHdr
    /\ os_args' = NoArgs
    /\ os_result' = NoOsResult
    /\ threads' = NoThreads

Next ==
    \/ CallParseBoot
    \/ BootCheckLength
    \/ BootReadVersion
    \/ BootCheckMagic
    \/ BootDispatch
    \/ CallParseVendor
    \/ VendorCheckLength
    \/ VendorCheckMagic
    \/ VendorReadVersion
    \/ VendorDispatch
    \/ ConstructDefault
    \/ CallOsVersion
    \/ Return

Spec == Init /\ [][Next]_vars

\* A step of a parser call in progress.
ParseStep ==
    \/ BootCheckLength
    \/ BootReadVersion
    \/ BootCheckMagic
    \/ BootDispatch
    \/ VendorCheckLength
    \/ VendorCheckMagic
    \/ VendorReadVersion
    \/ VendorDispatch

\* The parsers are synchronous and never block: a call that has started keeps
\* taking its steps.
FairSpec == Spec /\ WF_vars(ParseStep)

(***************************************************************************)
(* Properties.                                                             *)
(***************************************************************************)
\* The version number and the variant tag of each record type.
VersionOf(T) ==
    CASE T = "BootImgHdrV0" -> 0
      [] T = "BootImgHdrV1" -> 1
      [] T = "BootImgHdrV2" -> 2
      [] T = "BootImgHdrV3" -> 3
      [] T = "BootImgHdrV4" -> 4
      [] T = "VendorBootHdrV3" -> 3
      [] T = "VendorBootHdrV4" -> 4

VariantOf(T) ==
    CASE T = "BootImgHdrV0" -> "V0Hdr"
      [] T = "BootImgHdrV1" -> "V1Hdr"
      [] T = "BootImgHdrV2" -> "V2Hdr"
      [] T = "BootImgHdrV3" -> "V3Hdr"
      [] T = "BootImgHdrV4" -> "V4Hdr"
      [] T = "VendorBootHdrV3" -> "V3Hdr"
      [] T = "VendorBootHdrV4" -> "V4Hdr"

BootDone == pc = "done" /\ fn = "parse_boot_image"
VendorDone == pc = "done" /\ fn = "parse_vendor_boot_image"

\* The first n bytes of the buffer are the bytes m.
StartsWith(b, m) == Len(b) >= Len(m) /\ \A i \in 1..Len(m) : b[i] = m[i]

\* The four bytes at offset off of b are the little-endian encoding of V.
EncodesAt(b, off, V) ==
    /\ Len(b) >= off + 4
    /\ b[off + 1] = V % 256
    /\ b[off + 2] = (V \div 256) % 256
    /\ b[off + 3] = (V \div 65536) % 256
    /\ b[off + 4] = (V \div 16777216) % 256

\* C1: for each boot version V, parsing the buffer that holds exactly the
\* default (minimal valid) version-V record returns Ok with the variant tagged V,
\* and the record seen through the view is the whole input, byte for byte.
C1_BootRoundTrip ==
    BootDone =>
      \A T \in BootTypes :
        buffer = DefaultBytes[T] =>
          /\ Len(buffer) = size_of(T)
          /\ result.kind = "Ok"
          /\ result.variant = VariantOf(T)
          /\ result.head = buffer

C1_Witness ==
    /\ BootDone
    /\ buffer = DefaultBytes["BootImgHdrV4"]
    /\ result.kind = "Ok"
    /\ result.variant = "V4Hdr"
\* C2: a buffer of at least 44 bytes with the boot magic and a supported
\* version V at offset 40, but shorter than the version-V record, gives
\* Err(BufferTooSmall).
C2_BootTruncated ==
    BootDone =>
      \A T \in BootTypes :
        (/\ Len(buffer) >= 44
         /\ Len(buffer) < size_of(T)
         /\ StartsWith(buffer, BOOT_MAGIC)
         /\ EncodesAt(buffer, 40, VersionOf(T)))
          => result = Err("BufferTooSmall")

C2_Witness ==
    /\ BootDone
    /\ Len(buffer) = size_of_BootImgHdrV4 - 1
    /\ StartsWith(buffer, BOOT_MAGIC)
    /\ EncodesAt(buffer, 40, 4)
    /\ result = Err("BufferTooSmall")

\* C3: a buffer shorter than 44 bytes gives Err(BufferTooSmall) whatever it
\* holds, also when its magic is wrong.
C3_BootShort ==
    (BootDone /\ Len(buffer) < 44) => result = Err("BufferTooSmall")

C3_Witness ==
    /\ BootDone
    /\ Len(buffer) = 43
    /\ StartsWith(buffer, ANDROGEN)
    /\ result = Err("BufferTooSmall")

\* C4: a buffer of at least 44 bytes whose first 8 bytes are not the boot magic
\* gives Err(BadMagic), whatever its version field and length.
C4_BootBadMagic ==
    (BootDone /\ Len(buffer) >= 44 /\ ~StartsWith(buffer, BOOT_MAGIC))
      => result = Err("BadMagic")

C4_Witness ==
    /\ BootDone
    /\ Len(buffer) = 44
    /\ StartsWith(buffer, ANDROGEN)
    /\ EncodesAt(buffer, 40, 1)
    /\ result = Err("BadMagic")

\* C5: a buffer of at least 44 bytes with the boot magic whose version field is
\* none of 0..4 gives Err(UnknownVersion), whatever its length.
C5_BootUnknownVersion ==
    (/\ BootDone
     /\ Len(buffer) >= 44
     /\ StartsWith(buffer, BOOT_MAGIC)
     /\ \A V \in 0..4 : ~EncodesAt(buffer, 40, V))
      => result = Err("UnknownVersion")

C5_Witness ==
    /\ BootDone
    /\ Len(buffer) = 44
    /\ StartsWith(buffer, BOOT_MAGIC)
    /\ buffer[41] = 0 /\ buffer[44] = 3
    /\ result = Err("UnknownVersion")

\* C6: parse_vendor_boot_image decides its error in this order: length < 12
\* gives BufferTooSmall; else a magic other than VNDRBOOT gives BadMagic; else a
\* version other than 3 and 4 gives UnknownVersion; else a length below the
\* version's record size gives BufferTooSmall; else there is no error.
C6_VendorErrorOrder ==
    VendorDone =>
      IF Len(buffer) < 12 THEN result = Err("BufferTooSmall")
      ELSE IF ~StartsWith(buffer, VENDOR_BOOT_MAGIC) THEN result = Err("BadMagic")
      ELSE IF \A T \in VendorTypes : ~EncodesAt(buffer, 8, VersionOf(T))
        THEN result = Err("UnknownVersion")
      ELSE IF \E T \in VendorTypes :
                EncodesAt(buffer, 8, VersionOf(T)) /\ Len(buffer) < size_of(T)
        THEN result = Err("BufferTooSmall")
      ELSE result.kind = "Ok"

C6_Witness ==
    /\ VendorDone
    /\ Len(buffer) = size_of_VendorBootHdrV3
    /\ StartsWith(buffer, VENDOR_BOOT_MAGIC)
    /\ EncodesAt(buffer, 8, 2)
    /\ result = Err("UnknownVersion")

\* C7: for each vendor version V, parsing the buffer that holds exactly the
\* default (minimal valid) version-V vendor record returns Ok with the variant
\* tagged V, and the record seen through the view is the whole input.
C7_VendorRoundTrip ==
    VendorDone =>
      \A T \in VendorTypes :
        buffer = DefaultBytes[T] =>
          /\ Len(buffer) = size_of(T)
          /\ result.kind = "Ok"
          /\ result.variant = VariantOf(T)
          /\ result.head = buffer

C7_Witness ==
    /\ VendorDone
    /\ buffer = DefaultBytes["VendorBootHdrV4"]
    /\ result.kind = "Ok"
    /\ result.variant = "V4Hdr"
\* The buffer of the scenario: n bytes, the boot magic, version 2 at offset 40,
\* every other byte zero.
Scenario(n) ==
    [i \in 1..n |-> IF i <= 8 THEN BOOT_MAGIC[i] ELSE IF i = 41 THEN 2 ELSE 0]

\* C8, as stated: the scenario buffer of 1632+12 = 1644 bytes parses as the
\* version-2 variant.
C8_Original ==
    (BootDone /\ buffer = Scenario(1632 + 12))
      => (result.kind = "Ok" /\ result.variant = "V2Hdr")

\* C8, amended: the scenario buffer of 1648+12 = 1660 bytes (the version-1
\* record of 1648 bytes plus the 12 bytes version 2 adds) parses as the
\* version-2 variant over the whole buffer, and the one of 1632+12 = 1644 bytes
\* gives Err(BufferTooSmall).
C8_Amended ==
    BootDone =>
      /\ buffer = Scenario(1648 + 12) =>
           (result.kind = "Ok" /\ result.variant = "V2Hdr" /\ result.head = buffer)
      /\ buffer = Scenario(1632 + 12) => result = Err("BufferTooSmall")

C8_Witness ==
    /\ BootDone
    /\ buffer = Scenario(1648 + 12)
    /\ result.kind = "Ok"
    /\ result.variant = "V2Hdr"

\* The word the documentation of os_version describes, bit by bit:
\* major[31:25] minor[24:18] patch[17:11] (year-2000)[10:4] month[3:0].
ClaimedWord(major, minor, patch, year, month) ==
    [i \in WordBits |->
       IF i >= 25 THEN ((major % 128) \div (2 ^ (i - 25))) % 2
       ELSE IF i >= 18 THEN ((minor % 128) \div (2 ^ (i - 18))) % 2
       ELSE IF i >= 11 THEN ((patch % 128) \div (2 ^ (i - 11))) % 2
       ELSE IF i >= 4 THEN (((year - 2000) % 128) \div (2 ^ (i - 4))) % 2
       ELSE ((month % 16) \div (2 ^ i)) % 2]

OsVersionDone == pc = "done" /\ fn = "os_version"

\* C9: os_version called with a calendar year of 2000 or later returns the
\* word major[31:25] minor[24:18] patch[17:11] (year-2000)[10:4] month[3:0].
C9_OsVersionWord ==
    (OsVersionDone /\ os_args.caller_year >= 2000) =>
      /\ os_result.kind = "value"
      /\ os_result.word =
           ClaimedWord(os_args.major, os_args.minor, os_args.patch,
                       os_args.caller_year, os_args.month)

\* The fields of a record that its family shares, by record type.
header_size_of(T, h) ==
    CASE T = "BootImgHdrV1" -> h.header_size
      [] T = "BootImgHdrV2" -> h.v1_hdr.header_size
      [] T = "BootImgHdrV3" -> h.header_size
      [] T = "BootImgHdrV4" -> h.v3_hdr.header_size
      [] T = "VendorBootHdrV3" -> h.header_size
      [] T = "VendorBootHdrV4" -> h.v3_img_hdr.header_size

header_version_of(T, h) ==
    CASE T = "BootImgHdrV0" -> h.header_version
      [] T = "BootImgHdrV1" -> h.v0_hdr.header_version
      [] T = "BootImgHdrV2" -> h.v1_hdr.v0_hdr.header_version
      [] T = "BootImgHdrV3" -> h.header_version
      [] T = "BootImgHdrV4" -> h.v3_hdr.header_version
      [] T = "VendorBootHdrV3" -> h.header_version
      [] T = "VendorBootHdrV4" -> h.v3_img_hdr.header_version

magic_of(T, h) ==
    CASE T = "BootImgHdrV0" -> h.magic
      [] T = "BootImgHdrV1" -> h.v0_hdr.magic
      [] T = "BootImgHdrV2" -> h.v1_hdr.v0_hdr.magic
      [] T = "BootImgHdrV3" -> h.magic
      [] T = "BootImgHdrV4" -> h.v3_hdr.magic
      [] T = "VendorBootHdrV3" -> h.magic
      [] T = "VendorBootHdrV4" -> h.v3_img_hdr.magic

FamilyMagic(T) == IF T \in BootTypes THEN BOOT_MAGIC ELSE VENDOR_BOOT_MAGIC

HeaderSizedTypes == RecordTypes \ {"BootImgHdrV0"}

\* C10: the Default constructor of every record type with a header_size field
\* sets header_size to the byte size of that record type, magic to the family's
\* magic and header_version to the type's version number.
C10_DefaultHeaderSize ==
    (pc = "done" /\ fn = "default" /\ hdr.type \in HeaderSizedTypes) =>
      /\ header_size_of(hdr.type, hdr.rec) = size_of(hdr.type)
      /\ magic_of(hdr.type, hdr.rec) = FamilyMagic(hdr.type)
      /\ header_version_of(hdr.type, hdr.rec) = VersionOf(hdr.type)
\* The record type behind a variant of the parser called.
TypeOfVariant(f, variant) ==
    CHOOSE T \in (IF f = "parse_boot_image" THEN BootTypes ELSE VendorTypes) :
      VariantOf(T) = variant

ParseDone == BootDone \/ VendorDone

Parsers == {"parse_boot_image", "parse_vendor_boot_image"}
InCall == fn \in Parsers /\ pc \in {"start", "length_checked", "magic_checked", "version_read"}

LabelAfter(c) ==
    CASE c = "length" -> "length_checked"
      [] c = "magic" -> "magic_checked"
      [] c = "version" -> "version_read"
      [] c = "dispatch" -> "done"

PcAt(order, p) == IF p = 1 THEN "start" ELSE LabelAfter(order[p - 1])

MinLength(f) == IF f = "parse_boot_image" THEN BOOT_VERSION_END ELSE version_end_offset
OwnMagic(f) == IF f = "parse_boot_image" THEN BOOT_MAGIC ELSE VENDOR_BOOT_MAGIC

CheckFails(c) ==
    CASE c = "length" -> Len(buffer) < MinLength(fn)
      [] c = "magic" -> ~StartsWith(buffer, OwnMagic(fn))
      [] OTHER -> FALSE

ErrorOf(c) == IF c = "length" THEN "BufferTooSmall" ELSE "BadMagic"

\* A step of a call makes the check that follows, in the order given, the last
\* check passed; the call ends with the check's error if the check fails and
\* stands at the check's label if it passes.
FollowsOrder(order) ==
    \A p \in 1..Len(order) :
      pc = PcAt(order, p) =>
        IF CheckFails(order[p])
          THEN pc' = "done" /\ result' = Err(ErrorOf(order[p]))
          ELSE pc' = LabelAfter(order[p])

ClaimedOrder == <<"length", "magic", "version", "dispatch">>
BootOrder == <<"length", "version", "magic", "dispatch">>

PreviousVersion(T) ==
    CASE T = "BootImgHdrV1" -> "BootImgHdrV0"
      [] T = "BootImgHdrV2" -> "BootImgHdrV1"
      [] T = "BootImgHdrV3" -> "BootImgHdrV2"
      [] T = "BootImgHdrV4" -> "BootImgHdrV3"
      [] T = "VendorBootHdrV4" -> "VendorBootHdrV3"

\* The bytes of the record h of type T are the complete record of the previous
\* version at offset 0, then T's own fields with no padding.
ExtendsPrevious(T, h) ==
    LET P == PreviousVersion(T)
    IN  /\ prefix_type(T) = P
        /\ Slice(as_bytes(T, h), 0, size_of(P)) = as_bytes(P, prefix_of(T, h))
        /\ Len(as_bytes(T, h)) = size_of(P) + own_fields_width(T)
        /\ size_of(T) = size_of(P) + own_fields_width(T)

DefaultDone == pc = "done" /\ fn = "default"

\* C14, as stated: for every boot version N in {1,2,3,4}, and for vendor
\* version 4, a record's bytes are the complete record of the previous version
\* followed by the version's own fields with no padding, and the sizes add up.
C14_Original ==
    (DefaultDone /\ hdr.type \in {"BootImgHdrV1", "BootImgHdrV2", "BootImgHdrV3",
                                  "BootImgHdrV4", "VendorBootHdrV4"})
      => ExtendsPrevious(hdr.type, hdr.rec)

\* C14, amended: the same for the boot versions N in {1,2,4} and for vendor
\* version 4; the version-3 boot record has no prefix field and its size is
\* the sum of its own fields' widths, not the version-2 size plus anything.
C14_Amended ==
    /\ (DefaultDone /\ hdr.type \in {"BootImgHdrV1", "BootImgHdrV2",
                                     "BootImgHdrV4", "VendorBootHdrV4"})
         => ExtendsPrevious(hdr.type, hdr.rec)
    /\ (DefaultDone /\ hdr.type = "BootImgHdrV3")
         => /\ prefix_type(hdr.type) = NoPrefix
            /\ Len(as_bytes(hdr.type, hdr.rec)) = own_fields_width(hdr.type)
            /\ Slice(as_bytes(hdr.type, hdr.rec), 0, size_of("BootImgHdrV2"))
                 # as_bytes("BootImgHdrV2", Default("BootImgHdrV2"))

C14_Witness ==
    /\ DefaultDone
    /\ hdr.type = "BootImgHdrV4"
    /\ Len(as_bytes(hdr.type, hdr.rec)) = 2144
(***************************************************************************)
(* Bytes past the record.                                                  *)
(***************************************************************************)
FamilyTypes(f) == IF f = "parse_boot_image" THEN BootTypes ELSE VendorTypes
VersionOffset(f) == IF f = "parse_boot_image" THEN BOOT_VERSION_OFFSET ELSE VENDOR_BOOT_MAGIC_SIZE

\* The buffer carries a header of type T of the family parsed: the family's
\* magic, T's version, and at least size_of(T) bytes.
Carries(T) ==
    /\ T \in FamilyTypes(fn)
    /\ StartsWith(buffer, OwnMagic(fn))
    /\ EncodesAt(buffer, VersionOffset(fn), VersionOf(T))
    /\ Len(buffer) >= size_of(T)

\* C15: the result of either parser on a buffer that carries a header of
\* version V in at least size(V) bytes is Ok with V's variant and a view that
\* is exactly the first size(V) bytes.  The result is thus a function of these
\* bytes alone: two buffers that agree on them get the same variant and equal
\* views, and bytes appended to a buffer that parses change nothing.
C15_TrailingBytesIgnored ==
    \A T \in RecordTypes :
      (ParseDone /\ Carries(T)) =>
        result = Ok(VariantOf(T), Slice(buffer, 0, size_of(T)))

C15_Witness ==
    /\ BootDone
    /\ Carries("BootImgHdrV2")
    /\ Len(buffer) > size_of("BootImgHdrV2")
    /\ buffer[Len(buffer)] = 170
    /\ result.kind = "Ok"
(***************************************************************************)
(* Outcomes.                                                               *)
(***************************************************************************)
ParseErrors == {"BufferTooSmall", "BadMagic", "UnknownVersion"}
Variants(f) == {VariantOf(T) : T \in FamilyTypes(f)}

\* The result is one of the four outcomes, and an Ok carries a whole record.
OneOutcome ==
    \/ /\ result.kind = "Err"
       /\ result.err \in ParseErrors
    \/ /\ result.kind = "Ok"
       /\ result.variant \in Variants(fn)
       /\ Len(result.head) = size_of(TypeOfVariant(fn, result.variant))

\* C16: every call of either parser, on any buffer, ends; it ends with exactly
\* one of Ok(view), Err(BufferTooSmall), Err(BadMagic), Err(UnknownVersion),
\* never Err(UnknownError); the view of an Ok is a whole record, and no result
\* exists while the call is in progress.
C16_OneOutcome ==
    /\ [](ParseDone => OneOutcome)
    /\ [](InCall => result = NoResult)
    /\ (fn \in Parsers /\ pc = "start") ~> ParseDone

C16_Witness ==
    /\ VendorDone
    /\ result = Err("UnknownVersion")
    /\ Len(buffer) > size_of("VendorBootHdrV4")
\* C18: for every argument tuple of 8-bit values, the 32-bit subtraction
\* year - 2000 inside os_version does not underflow, so the call returns a
\* value; it neither faults nor wraps.
C18_OsVersionTotal ==
    (OsVersionDone /\ os_args.year \in 0..255) =>
      /\ os_args.year - YEAR_BASE >= 0
      /\ os_result.kind = "value"
(***************************************************************************)
(* Concurrent calls.  Several threads call the parsers over one buffer,    *)
(* each with its own locals; their statements interleave in any order.     *)
(***************************************************************************)
MaxThreads == 2
ThreadIds == 1..MaxThreads

\* parse_boot_image and parse_vendor_boot_image as functions of the buffer.
parse_boot_image(b) ==
    IF Len(b) < BOOT_VERSION_END THEN Err("BufferTooSmall")
    ELSE IF Slice(b, 0, BOOT_MAGIC_SIZE) # BOOT_MAGIC THEN Err("BadMagic")
    ELSE boot_match_version(from_le_bytes(Slice(b, BOOT_VERSION_OFFSET, BOOT_VERSION_END)), b)

parse_vendor_boot_image(b) ==
    IF Len(b) < version_end_offset THEN Err("BufferTooSmall")
    ELSE IF Slice(b, 0, VENDOR_BOOT_MAGIC_SIZE) # VENDOR_BOOT_MAGIC THEN Err("BadMagic")
    ELSE vendor_match_version(
           from_le_bytes(Slice(b, VENDOR_BOOT_MAGIC_SIZE, version_end_offset)), b)

parse(f, b) == IF f = "parse_boot_image" THEN parse_boot_image(b) ELSE parse_vendor_boot_image(b)

\* The buffers shared: a default record of either family under either magic,
\* with its own or an unknown version, cut short or extended.
SharedLengths(T) ==
    {size_of(T) - Slack, size_of(T) + Slack}
      \cup (IF T = "BootImgHdrV0" THEN {BOOT_VERSION_END - Slack} ELSE {})
      \cup (IF T = "VendorBootHdrV3" THEN {version_end_offset - Slack} ELSE {})

SharedBuffers ==
    UNION {{InputBuffer(T, magic, offset_of_header_version(T), raw, n, 170) :
              magic \in {BOOT_MAGIC, VENDOR_BOOT_MAGIC},
              raw \in {<<>>, to_le_bytes(5, U32_SIZE)},
              n \in SharedLengths(T)} : T \in RecordTypes}
\* k threads are started over one buffer, each calling one of the parsers.
Spawn ==
    /\ pc = "idle"
    /\ buffer' \in SharedBuffers
    /\ \E k \in ThreadIds : \E fns \in [1..k -> Parsers] :
         threads' = [t \in 1..k |->
                       [fn |-> fns[t], pc |-> "start", version |-> NoVersion,
                        result |-> NoResult]]
    /\ pc' = "concurrent"
    /\ fn' = "threads"
    /\ UNCHANGED <<version, result, hdr, os_args, os_result>>

Running(t) == pc = "concurrent" /\ t \in DOMAIN threads

\* if buffer.len() < 44 / version_end_offset { return Err(BufferTooSmall) }
ThreadCheckLength(t) ==
    /\ Running(t) /\ threads[t].pc = "start"
    /\ LET me == threads[t]
       IN  threads' =
             [threads EXCEPT ![t] =
                IF Len(buffer) < MinLength(me.fn)
                  THEN [me EXCEPT !.result = Err("BufferTooSmall"), !.pc = "done"]
                  ELSE [me EXCEPT !.pc = "length_checked"]]
    /\ UNCHANGED <<pc, fn, buffer, version, result, hdr, os_args, os_result>>

\* let version = u32::from_le_bytes(..): after the length check in
\* parse_boot_image, after the magic check in parse_vendor_boot_image.
ThreadReadVersion(t) ==
    /\ Running(t)
    /\ threads[t].pc = (IF threads[t].fn = "parse_boot_image"
                          THEN "length_checked" ELSE "magic_checked")
    /\ LET me == threads[t]
           s == Slice(buffer, VersionOffset(me.fn), MinLength(me.fn))
       IN  threads' =
             [threads EXCEPT ![t] =
                IF Len(s) # U32_SIZE
                  THEN [me EXCEPT !.result = Err("BufferTooSmall"), !.pc = "done"]
                  ELSE [me EXCEPT !.version = from_le_bytes(s), !.pc = "version_read"]]
    /\ UNCHANGED <<pc, fn, buffer, version, result, hdr, os_args, os_result>>

\* if buffer[0..8].ne(&MAGIC) { return Err(BadMagic) }: after the version read
\* in parse_boot_image, after the length check in parse_vendor_boot_image.
ThreadCheckMagic(t) ==
    /\ Running(t)
    /\ threads[t].pc = (IF threads[t].fn = "parse_boot_image"
                          THEN "version_read" ELSE "length_checked")
    /\ LET me == threads[t]
       IN  threads' =
             [threads EXCEPT ![t] =
                IF Slice(buffer, 0, Len(OwnMagic(me.fn))) # OwnMagic(me.fn)
                  THEN [me EXCEPT !.result = Err("BadMagic"), !.pc = "done"]
                  ELSE [me EXCEPT !.pc = "magic_checked"]]
    /\ UNCHANGED <<pc, fn, buffer, version, result, hdr, os_args, os_result>>

\* What match version { .. } gives in the parser f.
match_version(f, v, b) ==
    IF f = "parse_boot_image" THEN boot_match_version(v, b) ELSE vendor_match_version(v, b)

\* Faulty variant of ThreadDispatch: the result goes through one slot that all
\* threads share.
ThreadDispatch_shared_result(t) ==
    /\ Running(t)
    /\ threads[t].pc = (IF threads[t].fn = "parse_boot_image"
                          THEN "magic_checked" ELSE "version_read")
    /\ LET me == threads[t]
           r == match_version(me.fn, me.version, buffer)
       IN  threads' =
             [u \in DOMAIN threads |->
                IF u = t THEN [me EXCEPT !.result = r, !.pc = "done"]
                         ELSE [threads[u] EXCEPT !.result = r]]
    /\ UNCHANGED <<pc, fn, buffer, version, result, hdr, os_args, os_result>>

\* match version { .. }
ThreadDispatch(t) ==
    /\ Running(t)
    /\ threads[t].pc = (IF threads[t].fn = "parse_boot_image"
                          THEN "magic_checked" ELSE "version_read")
    /\ LET me == threads[t]
       IN  threads' =
             [threads EXCEPT ![t] =
                [me EXCEPT !.result = match_version(me.fn, me.version, buffer),
                           !.pc = "done"]]
    /\ UNCHANGED <<pc, fn, buffer, version, result, hdr, os_args, os_result>>

\* All calls have returned; the buffer goes back to its owner.
Join ==
    /\ pc = "concurrent"
    /\ \A t \in DOMAIN threads : threads[t].pc = "done"
    /\ pc' = "idle"
    /\ fn' = "none"
    /\ buffer' = <<>>
    /\ threads' = NoThreads
    /\ UNCHANGED <<version, result, hdr, os_args, os_result>>

ConcNext ==
    \/ Spawn
    \/ \E t \in ThreadIds : ThreadCheckLength(t)
    \/ \E t \in ThreadIds : ThreadReadVersion(t)
    \/ \E t \in ThreadIds : ThreadCheckMagic(t)
    \/ \E t \in ThreadIds : ThreadDispatch(t)
    \/ Join

ConcSpec == Init /\ [][ConcNext]_vars

\* C17: under any interleaving of parser calls running concurrently over one
\* buffer, no step changes the buffer's bytes, and every call returns what the
\* parser returns on that buffer when it runs alone.
C17_ConcurrentParses ==
    /\ [][pc = "concurrent" => (pc' = "idle" \/ buffer' = buffer)]_vars
    /\ [](\A t \in DOMAIN threads :
            threads[t].pc = "done" => threads[t].result = parse(threads[t].fn, buffer))

C17_Witness ==
    /\ pc = "concurrent"
    /\ Len(threads) = 2
    /\ threads[1].fn = "parse_boot_image" /\ threads[2].fn = "parse_vendor_boot_image"
    /\ threads[2].pc = "done" /\ threads[2].result = Err("BadMagic")
    /\ threads[1].pc = "version_read"
    /\ Len(buffer) > size_of("BootImgHdrV4")

\* The statement-by-statement parsers return what the functions above give.
SequentialAgrees ==
    ParseDone => result = parse(fn, buffer)

====
